---- MODULE Spec2Model ----
(***************************************************************************)
(* Model of the combat statistics bot: the statistics store of            *)
(* utils/database.py (two PostgreSQL tables reached through an asyncpg    *)
(* connection pool) and the win-chance formula of cogs/combat.py.         *)
(*                                                                         *)
(* Spec      the statistics store under concurrent invocations            *)
(* CalcSpec  calculate_win_chance applied to bounded valid inputs         *)
(***************************************************************************)
EXTENDS Integers, Sequences, FiniteSets, TLC

(***************************************************************************)
(* Bounds of the model.                                                    *)
(***************************************************************************)
\* number of concurrent invocations (asyncio tasks), one operation each
NumTasks == 2
\* user ids 1..MaxUser
MaxUser == 2
\* largest total_fights among the sampled inputs of calculate_win_chance
MaxFights == 25
\* largest uses among the sampled inputs of calculate_win_chance
MaxUses == 12
\* largest uses of a weapon record in the tables get_top_weapons is run on
MaxTopUses == 2
\* number of concurrent fights that share the connection pool
NumPoolTasks == 5

(***************************************************************************)
(* Exact rational arithmetic.  Python computes the formula in binary       *)
(* floating point; the model computes it over the rationals <<n, d>>,      *)
(* d > 0, in lowest terms.                                                 *)
(***************************************************************************)
Abs(x) == IF x < 0 THEN -x ELSE x

RECURSIVE GCD(_, _)
GCD(a, b) == IF b = 0 THEN a ELSE GCD(b, a % b)

Rat(n, d) ==
    LET g == GCD(Abs(n), Abs(d))
        s == IF d < 0 THEN -1 ELSE 1
    IN  IF n = 0 THEN <<0, 1>> ELSE <<s * (n \div g), s * (d \div g)>>

RAdd(x, y) == Rat(x[1] * y[2] + y[1] * x[2], x[2] * y[2])
RSub(x, y) == Rat(x[1] * y[2] - y[1] * x[2], x[2] * y[2])
RMul(x, y) == Rat(x[1] * y[1], x[2] * y[2])
RLe(x, y) == x[1] * y[2] <= y[1] * x[2]
RLt(x, y) == x[1] * y[2] < y[1] * x[2]
RMin(x, y) == IF RLe(x, y) THEN x ELSE y
RMax(x, y) == IF RLe(x, y) THEN y ELSE x

(***************************************************************************)
(* cogs/combat.py: CombatCog.calculate_win_chance                          *)
(***************************************************************************)
base_chance == Rat(1, 2)
\* win rate of a participant without history
DefaultWinRate == Rat(3, 10)
\* fights after which a win rate has full confidence
ConfidenceFights == 20
\* uses after which a weapon win rate has full confidence
ConfidenceUses == 10
UserScale == Rat(1, 4)
UserClamp == Rat(1, 5)
WeaponScale == Rat(1, 5)
WeaponClamp == Rat(3, 20)
MinChance == Rat(1, 10)
MaxChance == Rat(9, 10)
One == Rat(1, 1)
Zero == Rat(0, 1)
Neg(x) == <<-x[1], x[2]>>

\* wins / total_fights if total_fights > 0 else 0.3
win_rate(stats) ==
    IF stats.total_fights > 0 THEN Rat(stats.wins, stats.total_fights)
    ELSE DefaultWinRate

\* min(1.0, total_fights / 20.0)
confidence(stats) == RMin(One, Rat(stats.total_fights, ConfidenceFights))

avg_confidence(attacker_stats, defender_stats) ==
    RMul(RAdd(confidence(attacker_stats), confidence(defender_stats)), Rat(1, 2))

\* wr_diff * 0.25 * avg_confidence, before the clamp
raw_user_modifier(attacker_stats, defender_stats) ==
    RMul(RMul(RSub(win_rate(attacker_stats), win_rate(defender_stats)), UserScale),
         avg_confidence(attacker_stats, defender_stats))

\* a clamp with its bounds exchanged: max(0.20, min(-0.20, user_modifier))
user_modifier_swapped(attacker_stats, defender_stats) ==
    RMax(UserClamp, RMin(Neg(UserClamp), raw_user_modifier(attacker_stats, defender_stats)))

\* a user modifier without the scale and the clamp: wr_diff * avg_confidence
user_modifier_unscaled(attacker_stats, defender_stats) ==
    RMul(RSub(win_rate(attacker_stats), win_rate(defender_stats)),
         avg_confidence(attacker_stats, defender_stats))

\* max(-0.20, min(0.20, user_modifier))
user_modifier(attacker_stats, defender_stats) ==
    RMax(Neg(UserClamp), RMin(UserClamp, raw_user_modifier(attacker_stats, defender_stats)))

\* the weapon proficiency modifier, 0.0 for an unused weapon
weapon_modifier(attacker_stats, weapon_stats) ==
    IF weapon_stats.uses > 0
    THEN LET weapon_wr == Rat(weapon_stats.wins, weapon_stats.uses)
             relative_weapon_wr == RSub(weapon_wr, win_rate(attacker_stats))
             weapon_confidence == RMin(One, Rat(weapon_stats.uses, ConfidenceUses))
             m == RMul(RMul(relative_weapon_wr, WeaponScale), weapon_confidence)
         IN  RMax(Neg(WeaponClamp), RMin(WeaponClamp, m))
    ELSE Zero

\* base_chance + user_modifier + weapon_modifier, before the final clamp
unclamped_chance(attacker_stats, defender_stats, weapon_stats) ==
    RAdd(RAdd(base_chance, user_modifier(attacker_stats, defender_stats)),
         weapon_modifier(attacker_stats, weapon_stats))

\* a version that clamps to percentages: max(10, min(90, win_chance))
calculate_win_chance_percent(attacker_stats, defender_stats, weapon_stats) ==
    RMax(Rat(10, 1), RMin(Rat(90, 1),
         unclamped_chance(attacker_stats, defender_stats, weapon_stats)))

calculate_win_chance(attacker_stats, defender_stats, weapon_stats) ==
    RMax(MinChance, RMin(MaxChance,
         unclamped_chance(attacker_stats, defender_stats, weapon_stats)))

(***************************************************************************)
(* utils/weapons.py: the weapon catalog (a sample of ALL_WEAPONS_LIST).    *)
(***************************************************************************)
ALL_WEAPONS_LIST == <<"m4a1", "akm">>
ALL_WEAPONS_SET == {ALL_WEAPONS_LIST[i] : i \in DOMAIN ALL_WEAPONS_LIST}
WeaponIndex(w) == CHOOSE i \in DOMAIN ALL_WEAPONS_LIST : ALL_WEAPONS_LIST[i] = w

\* random.choice(ALL_WEAPONS_LIST): any entry of the list
get_random_weapon == {ALL_WEAPONS_LIST[i] : i \in DOMAIN ALL_WEAPONS_LIST}

(***************************************************************************)
(* A weapon name as the user typed it is a sequence of characters; None    *)
(* is the empty sequence of results, a name <<name>>.                      *)
(***************************************************************************)
\* str.lower() on one character
lower_char(c) ==
    CASE c = "A" -> "a"
      [] c = "K" -> "k"
      [] c = "M" -> "m"
      [] c = "R" -> "r"
      [] OTHER -> c

lower(name) == [i \in DOMAIN name |-> lower_char(name[i])]

Whitespace == {" ", "\t"}

RECURSIVE lstrip(_)
lstrip(name) ==
    IF name # <<>> /\ Head(name) \in Whitespace THEN lstrip(Tail(name)) ELSE name

RECURSIVE rstrip(_)
rstrip(name) ==
    IF name # <<>> /\ name[Len(name)] \in Whitespace
    THEN rstrip(SubSeq(name, 1, Len(name) - 1))
    ELSE name

\* str.strip()
strip(name) == rstrip(lstrip(name))

\* the string made of the characters
RECURSIVE Text(_)
Text(name) == IF name = <<>> THEN "" ELSE Head(name) \o Text(Tail(name))

\* a normalisation that lets every name through
normalize_without_catalog(name) ==
    IF name = <<>> THEN <<>> ELSE <<Text(strip(lower(name)))>>

normalize_weapon_name(name) ==
    IF name = <<>> THEN <<>>
    ELSE LET name_lower == Text(strip(lower(name)))
         IN  IF name_lower \in ALL_WEAPONS_SET THEN <<name_lower>>
             ELSE IF name_lower = "m4" THEN <<"m4a1">>
             ELSE IF name_lower = "ak" THEN <<"akm">>
             ELSE <<>>

(***************************************************************************)
(* The statistics store.                                                   *)
(*                                                                         *)
(* users, user_weapons   the two tables, each a list of rows kept in key   *)
(*                       order.  A row carries its committed counters,     *)
(*                       xid: the transaction (task) that holds its row    *)
(*                       lock, 0 for none, and next: the uncommitted       *)
(*                       version that transaction wrote.                   *)
(* stack                 the call stack of each task: the frames of the    *)
(*                       coroutines it is inside, innermost last           *)
(* call                  the top-level call each task made                 *)
(* result                how each task's call ended, and what it returned  *)
(* overlap               whether two tasks have been in flight at once     *)
(* calc                  inputs and result of calculate_win_chance         *)
(***************************************************************************)
VARIABLES users, user_weapons, stack, call, result, overlap, calc

vars == <<users, user_weapons, stack, call, result, overlap, calc>>
store_vars == <<users, user_weapons, stack, call, result, overlap>>

Tasks == 1..NumTasks
UserIds == 1..MaxUser
\* asyncpg.create_pool(..., max_size=10)
max_size == 10
\* get_top_weapons(pool, user_id, limit=5)
DefaultLimit == 5
Limits == {1, DefaultLimit}

ZeroUser == [total_fights |-> 0, wins |-> 0, losses |-> 0]
ZeroWeapon == [wins |-> 0, uses |-> 0]

\* INSERT INTO users (user_id) VALUES ($1): the column defaults
NewUserRow(u) ==
    [total_fights |-> 0, wins |-> 0, losses |-> 0, user_id |-> u, xid |-> 0,
     next |-> ZeroUser]

\* INSERT INTO user_weapons (user_id, weapon_name) VALUES ($1, $2)
NewWeaponRow(u, w) ==
    [wins |-> 0, uses |-> 0, user_id |-> u, xid |-> 0, next |-> ZeroWeapon,
     weapon_name |-> w]

UserCounters(r) == [total_fights |-> r.total_fights, wins |-> r.wins,
                    losses |-> r.losses]
WeaponCounters(r) == [wins |-> r.wins, uses |-> r.uses]

\* key order of the two tables
UserKeyLess(k1, k2) == k1 < k2
WeaponKeyLess(u1, w1, u2, w2) ==
    u1 < u2 \/ (u1 = u2 /\ WeaponIndex(w1) < WeaponIndex(w2))

\* the rows a WHERE clause selects
UserRows(u) == {i \in DOMAIN users : users[i].user_id = u}
WeaponRows(u, w) ==
    {i \in DOMAIN user_weapons :
        user_weapons[i].user_id = u /\ user_weapons[i].weapon_name = w}

InsertAt(table, n, row) ==
    [i \in 1..(Len(table) + 1) |->
        IF i <= n THEN table[i] ELSE IF i = n + 1 THEN row ELSE table[i - 1]]

InsertUser(table, row) ==
    InsertAt(table,
             Cardinality({i \in DOMAIN table : ~UserKeyLess(row.user_id, table[i].user_id)}),
             row)

InsertWeapon(table, row) ==
    InsertAt(table,
             Cardinality({i \in DOMAIN table :
                 ~WeaponKeyLess(row.user_id, row.weapon_name,
                                table[i].user_id, table[i].weapon_name)}),
             row)

(***************************************************************************)
(* Frames.  Every frame of the store has the same fields; a function      *)
(* leaves the ones it has no parameter for at their defaults.  The frame  *)
(* of the /attack handler also holds the handler's local variables.       *)
(***************************************************************************)
Frame(fn, u, d, w, won, lim) ==
    [user_id |-> u, weapon_name |-> w, fn |-> fn, pc |-> "acquire",
     defender_id |-> d, attacker_won |-> won, limit |-> lim]

GusFrame(u) == Frame("get_user_stats", u, 0, "", FALSE, 0)
GwsFrame(u, w) == Frame("get_weapon_stats", u, 0, w, FALSE, 0)
GtwFrame(u, lim) == Frame("get_top_weapons", u, 0, "", FALSE, lim)
RfFrame(a, d, w, won) == Frame("record_fight", a, d, w, won, 0)
NoCall == Frame("none", 0, 0, "", FALSE, 0)

\* the /attack handler awaiting its first read; roll is the value its
\* random.random() will give, recorded the record_fight calls it has made
AttackFrame(a, d, w, roll) ==
    [attacker_stats |-> ZeroUser, defender_stats |-> ZeroUser,
     weapon_stats |-> ZeroWeapon, user_id |-> a, weapon_name |-> w,
     fn |-> "attack", pc |-> "fetch_attacker", defender_id |-> d,
     attacker_won |-> FALSE, limit |-> 0, roll |-> roll,
     win_chance |-> Zero, recorded |-> 0]

\* the /attack command as it was given
AttackCall(a, d, bot, given, text, roll) ==
    [user_id |-> a, fn |-> "attack", defender_id |-> d, roll |-> roll,
     bot |-> bot, given |-> given, text |-> text]

NoResult == [status |-> "none", value |-> <<>>, undone |-> 0]

Top(t) == stack[t][Len(stack[t])]
Below(t) == SubSeq(stack[t], 1, Len(stack[t]) - 1)
At(t, fn, pc) == stack[t] # <<>> /\ Top(t).fn = fn /\ Top(t).pc = pc
SetPc(t, pc) == Below(t) \o <<[Top(t) EXCEPT !.pc = pc]>>

\* connections of the pool in use: every frame of the store past its acquire
\* holds one
RECURSIVE Held(_)
Held(frames) ==
    IF frames = <<>> THEN 0
    ELSE (IF Head(frames).fn = "attack" \/ Head(frames).pc = "acquire" THEN 0 ELSE 1)
            + Held(Tail(frames))

RECURSIVE SumHeld(_)
SumHeld(S) ==
    IF S = {} THEN 0
    ELSE LET t == CHOOSE x \in S : TRUE IN Held(stack[t]) + SumHeld(S \ {t})

PoolInUse == SumHeld(DOMAIN stack)

(***************************************************************************)
(* Rows under READ COMMITTED: another connection sees a row's committed    *)
(* counters; the transaction that holds the row lock sees its own version. *)
(***************************************************************************)
VisibleUser(r, t) == IF r.xid = t THEN r.next ELSE UserCounters(r)
VisibleWeapon(r, t) == IF r.xid = t THEN r.next ELSE WeaponCounters(r)

\* SET wins = wins + 1 (and not total_fights)
IncWinOnly(c) == [c EXCEPT !.wins = c.wins + 1]

\* SET wins = wins + 1, total_fights = total_fights + 1
IncWin(c) == [c EXCEPT !.wins = c.wins + 1, !.total_fights = c.total_fights + 1]

\* SET losses = losses + 1, total_fights = total_fights + 1
IncLoss(c) == [c EXCEPT !.losses = c.losses + 1, !.total_fights = c.total_fights + 1]

\* SET wins = wins + 1 (and not uses)
IncWeaponWinOnly(c) == [c EXCEPT !.wins = c.wins + 1]

\* SET uses = uses + 1, wins = wins + 1
IncUseWin(c) == [c EXCEPT !.uses = c.uses + 1, !.wins = c.wins + 1]

\* SET uses = uses + 1
IncUse(c) == [c EXCEPT !.uses = c.uses + 1]

\* an attacker update that takes the won branch whatever the outcome
AttackerUpdateAlwaysWin(won, c) == IncWin(c)

\* the attacker's row update of record_fight
AttackerUpdate(won, c) == IF won THEN IncWin(c) ELSE IncLoss(c)

\* the weapon row update of record_fight
WeaponUpdate(won, c) == IF won THEN IncUseWin(c) ELSE IncUse(c)

\* a defender update with its two branches exchanged
DefenderUpdateSwapped(won, c) == IF ~won THEN IncLoss(c) ELSE IncWin(c)

\* the defender's row update of record_fight
DefenderUpdate(won, c) == IF ~won THEN IncWin(c) ELSE IncLoss(c)

\* UPDATE users SET ... WHERE user_id = attacker_id, by transaction t: takes
\* the row lock and writes the new version
UpdateAttackerRows(t, u, won) ==
    [i \in DOMAIN users |->
        IF users[i].user_id = u
        THEN [users[i] EXCEPT
                 !.xid = t, !.next = AttackerUpdate(won, VisibleUser(users[i], t))]
        ELSE users[i]]

\* UPDATE users SET ... WHERE user_id = defender_id
UpdateDefenderRows(t, u, won) ==
    [i \in DOMAIN users |->
        IF users[i].user_id = u
        THEN [users[i] EXCEPT
                 !.xid = t, !.next = DefenderUpdate(won, VisibleUser(users[i], t))]
        ELSE users[i]]

\* an UPDATE of user_weapons with WHERE user_id = u only
UpdateWeaponRowsOfUser(t, u, w, won) ==
    [i \in DOMAIN user_weapons |->
        IF user_weapons[i].user_id = u
        THEN [user_weapons[i] EXCEPT
                 !.xid = t, !.next = WeaponUpdate(won, VisibleWeapon(user_weapons[i], t))]
        ELSE user_weapons[i]]

\* UPDATE user_weapons SET ... WHERE user_id = u AND weapon_name = w
UpdateWeaponRows(t, u, w, won) ==
    [i \in DOMAIN user_weapons |->
        IF user_weapons[i].user_id = u /\ user_weapons[i].weapon_name = w
        THEN [user_weapons[i] EXCEPT
                 !.xid = t, !.next = WeaponUpdate(won, VisibleWeapon(user_weapons[i], t))]
        ELSE user_weapons[i]]

\* COMMIT of transaction t: its versions become the committed ones
CommitUsers(table, t) ==
    [i \in DOMAIN table |->
        IF table[i].xid = t
        THEN [table[i] EXCEPT !.wins = table[i].next.wins,
                              !.losses = table[i].next.losses,
                              !.total_fights = table[i].next.total_fights,
                              !.xid = 0]
        ELSE table[i]]

CommitWeapons(table, t) ==
    [i \in DOMAIN table |->
        IF table[i].xid = t
        THEN [table[i] EXCEPT !.uses = table[i].next.uses,
                              !.wins = table[i].next.wins,
                              !.xid = 0]
        ELSE table[i]]

\* updates that are not undone when the block is left by an exception
KeepUsers(table, t) == CommitUsers(table, t)

\* a rollback that also takes back the rows the transaction has written to,
\* as if their INSERT had been part of it
RollbackUsersAndRows(table, t) ==
    LET Other(r) == r.xid # t IN SelectSeq(table, Other)

\* ROLLBACK of transaction t: its versions are dropped, its locks released
RollbackUsers(table, t) ==
    [i \in DOMAIN table |->
        IF table[i].xid = t
        THEN [table[i] EXCEPT !.xid = 0, !.next = UserCounters(table[i])]
        ELSE table[i]]

RollbackWeapons(table, t) ==
    [i \in DOMAIN table |->
        IF table[i].xid = t
        THEN [table[i] EXCEPT !.xid = 0, !.next = WeaponCounters(table[i])]
        ELSE table[i]]

(***************************************************************************)
(* Leaving a coroutine.                                                    *)
(***************************************************************************)
\* attack, after weapon_stats arrived: the win chance, the draw, and the
\* call of record_fight
Decide(c, weapon_stats) ==
    LET win_chance == calculate_win_chance(c.attacker_stats, c.defender_stats,
                                           weapon_stats)
        attacker_won == RLt(c.roll, win_chance)
    IN  <<[c EXCEPT !.pc = "record", !.weapon_stats = weapon_stats,
                    !.win_chance = win_chance, !.attacker_won = attacker_won,
                    !.recorded = @ + 1],
          RfFrame(c.user_id, c.defender_id, c.weapon_name, attacker_won)>>

\* the /attack handler continues with the value its awaited read returned
ResumeAttack(c, value) ==
    IF c.pc = "fetch_attacker"
    THEN <<[c EXCEPT !.pc = "fetch_defender", !.attacker_stats = value],
           GusFrame(c.defender_id)>>
    ELSE IF c.pc = "fetch_defender"
    THEN <<[c EXCEPT !.pc = "fetch_weapon", !.defender_stats = value],
           GwsFrame(c.user_id, c.weapon_name)>>
    ELSE Decide(c, value)

\* the caller continues after its awaited call returned, up to its next await
Resume(frames, value) ==
    LET c == frames[Len(frames)]
        rest == SubSeq(frames, 1, Len(frames) - 1)
    IN  IF c.fn = "attack"
        THEN ResumeAttack(c, value)
        ELSE IF c.fn = "get_weapon_stats"
        THEN rest \o <<[c EXCEPT !.pc = "select"]>>
        ELSE IF c.pc = "ensure_attacker"
        THEN rest \o <<[c EXCEPT !.pc = "ensure_defender"], GusFrame(c.defender_id)>>
        ELSE IF c.pc = "ensure_defender"
        THEN rest \o <<[c EXCEPT !.pc = "ensure_weapon"],
                       GwsFrame(c.user_id, c.weapon_name)>>
        ELSE rest \o <<[c EXCEPT !.pc = "update_attacker"]>>

\* return value: releases the frame's connection and resumes the caller;
\* when record_fight returns to the /attack handler the handler sends its
\* report, with the win chance it computed, and ends
Return(t, value) ==
    IF Below(t) = <<>>
    THEN /\ stack' = [stack EXCEPT ![t] = <<>>]
         /\ result' = [result EXCEPT ![t] =
                          [status |-> "ok", value |-> value, undone |-> 0]]
    ELSE IF stack[t][1].fn = "attack" /\ Len(stack[t]) = 2 /\ stack[t][1].pc = "record"
    THEN /\ stack' = [stack EXCEPT ![t] = <<>>]
         /\ result' = [result EXCEPT ![t] =
                          [status |-> "reported", value |-> stack[t][1].win_chance,
                           undone |-> 0]]
    ELSE /\ stack' = [stack EXCEPT ![t] = Resume(Below(t), value)]
         /\ UNCHANGED result

\* the row versions transaction t has written and not committed
Uncommitted(t) ==
    Cardinality({i \in DOMAIN users : users[i].xid = t})
        + Cardinality({i \in DOMAIN user_weapons : user_weapons[i].xid = t})

\* how an exception ends the task: the /attack handler catches it, around
\* its reads or around record_fight, answers and returns; without the
\* handler the exception reaches the caller of the store
Surfaced(t, error) ==
    IF stack[t][1].fn = "attack"
    THEN (IF stack[t][1].pc = "record" THEN "save_failed" ELSE "fetch_failed")
    ELSE error

\* a handler that calls record_fight again when it failed
RaiseAndRetry(t, error) ==
    /\ IF stack[t][1].fn = "attack" /\ stack[t][1].pc = "record"
          /\ stack[t][1].recorded < 2
       THEN /\ stack' = [stack EXCEPT ![t] =
                           <<[stack[t][1] EXCEPT !.recorded = @ + 1],
                             RfFrame(stack[t][1].user_id, stack[t][1].defender_id,
                                     stack[t][1].weapon_name,
                                     stack[t][1].attacker_won)>>]
            /\ UNCHANGED result
       ELSE /\ stack' = [stack EXCEPT ![t] = <<>>]
            /\ result' = [result EXCEPT ![t] =
                             [status |-> Surfaced(t, error), value |-> <<>>,
                              undone |-> Uncommitted(t)]]
    /\ users' = RollbackUsers(users, t)
    /\ user_weapons' = RollbackWeapons(user_weapons, t)

\* an exception: no frame of the store catches it, so it leaves every frame
\* of the store, rolls back the task's transaction and releases its
\* connections; undone records how many row versions the rollback dropped
Raise(t, error) ==
    /\ stack' = [stack EXCEPT ![t] = <<>>]
    /\ result' = [result EXCEPT ![t] =
                     [status |-> Surfaced(t, error), value |-> <<>>,
                      undone |-> Uncommitted(t)]]
    /\ users' = RollbackUsers(users, t)
    /\ user_weapons' = RollbackWeapons(user_weapons, t)

(***************************************************************************)
(* Calls: a task starts one operation; the coroutine runs to its first     *)
(* await, pool.acquire().                                                  *)
(***************************************************************************)
Start(t, frame) ==
    /\ call[t] = NoCall
    /\ call' = [call EXCEPT ![t] = frame]
    /\ stack' = [stack EXCEPT ![t] = <<frame>>]
    /\ overlap' = (overlap \/ \E q \in DOMAIN stack \ {t} : stack[q] # <<>>)
    /\ UNCHANGED <<users, user_weapons, result, calc>>

CallGetUserStats(t, u) == Start(t, GusFrame(u))
CallGetWeaponStats(t, u, w) == Start(t, GwsFrame(u, w))
CallGetTopWeapons(t, u, lim) == Start(t, GtwFrame(u, lim))
CallRecordFight(t, a, d, w, won) == Start(t, RfFrame(a, d, w, won))

\* a check that lets every target through
NeverSelf(attacker_id, defender_id) == FALSE

\* if attacker.id == defender.id
IsSelf(attacker_id, defender_id) == attacker_id = defender_id

\* weapon selection: the weapons the command may go on with; none when the
\* typed name is not recognized
WeaponSelection(given, text) ==
    IF given /\ text # <<>>
    THEN LET normalized_weapon == normalize_weapon_name(text)
         IN  IF normalized_weapon # <<>> THEN {normalized_weapon[1]} ELSE {}
    ELSE get_random_weapon

\* the command ends with an answer to the user before any use of the store
Respond(t, answer) ==
    /\ result' = [result EXCEPT ![t] =
                     [status |-> answer, value |-> <<>>, undone |-> 0]]
    /\ UNCHANGED stack

\* /attack target [weapon]: the checks, the weapon selection, and the first
\* read up to its pool.acquire()
CallAttack(t, a, d, bot, given, text, roll) ==
    /\ call[t] = NoCall
    /\ call' = [call EXCEPT ![t] = AttackCall(a, d, bot, given, text, roll)]
    /\ IF IsSelf(a, d) THEN Respond(t, "rejected_self")
       ELSE IF bot THEN Respond(t, "rejected_bot")
       ELSE IF WeaponSelection(given, text) = {} THEN Respond(t, "rejected_weapon")
       ELSE /\ \E chosen_weapon \in WeaponSelection(given, text) :
                  stack' = [stack EXCEPT ![t] =
                               <<AttackFrame(a, d, chosen_weapon, roll), GusFrame(a)>>]
            /\ UNCHANGED result
    /\ overlap' = (overlap \/ \E q \in DOMAIN stack \ {t} : stack[q] # <<>>)
    /\ UNCHANGED <<users, user_weapons, calc>>

\* async with pool.acquire() as conn: waits while the pool has no free
\* connection
PoolFree == PoolInUse < max_size

(***************************************************************************)
(* get_user_stats                                                          *)
(***************************************************************************)
GusAcquire(t) ==
    /\ At(t, "get_user_stats", "acquire")
    /\ PoolFree
    /\ stack' = [stack EXCEPT ![t] = SetPc(t, "select")]
    /\ UNCHANGED <<users, user_weapons, call, result, overlap, calc>>

\* SELECT wins, losses, total_fights FROM users WHERE user_id = $1
GusSelect(t) ==
    /\ At(t, "get_user_stats", "select")
    /\ IF UserRows(Top(t).user_id) = {}
       THEN /\ stack' = [stack EXCEPT ![t] = SetPc(t, "insert")]
            /\ UNCHANGED result
       ELSE \E i \in UserRows(Top(t).user_id) : Return(t, UserCounters(users[i]))
    /\ UNCHANGED <<users, user_weapons, call, overlap, calc>>

\* a users table without a primary key never reports a conflict
NoUserKeyConflict(u) == FALSE

\* user_id BIGINT PRIMARY KEY: a second row with the key is refused
UserKeyConflict(u) == UserRows(u) # {}

\* INSERT INTO users (user_id) VALUES ($1)
GusInsert(t) ==
    /\ At(t, "get_user_stats", "insert")
    /\ IF UserKeyConflict(Top(t).user_id)
       THEN Raise(t, "unique_violation")
       ELSE /\ users' = InsertUser(users, NewUserRow(Top(t).user_id))
            /\ Return(t, ZeroUser)
            /\ UNCHANGED user_weapons
    /\ UNCHANGED <<call, overlap, calc>>

(***************************************************************************)
(* get_weapon_stats                                                        *)
(***************************************************************************)
\* a get_weapon_stats that goes to its SELECT without get_user_stats
GwsAcquireNoUser(t) ==
    /\ At(t, "get_weapon_stats", "acquire")
    /\ PoolFree
    /\ stack' = [stack EXCEPT ![t] = SetPc(t, "select")]
    /\ UNCHANGED <<users, user_weapons, call, result, overlap, calc>>

\* the connection is held while get_user_stats(pool, user_id) acquires its own
GwsAcquire(t) ==
    /\ At(t, "get_weapon_stats", "acquire")
    /\ PoolFree
    /\ stack' = [stack EXCEPT ![t] =
                    SetPc(t, "ensure_user") \o <<GusFrame(Top(t).user_id)>>]
    /\ UNCHANGED <<users, user_weapons, call, result, overlap, calc>>

\* SELECT uses, wins FROM user_weapons WHERE user_id = $1 AND weapon_name = $2
GwsSelect(t) ==
    /\ At(t, "get_weapon_stats", "select")
    /\ IF WeaponRows(Top(t).user_id, Top(t).weapon_name) = {}
       THEN /\ stack' = [stack EXCEPT ![t] = SetPc(t, "insert")]
            /\ UNCHANGED result
       ELSE \E i \in WeaponRows(Top(t).user_id, Top(t).weapon_name) :
                Return(t, WeaponCounters(user_weapons[i]))
    /\ UNCHANGED <<users, user_weapons, call, overlap, calc>>

\* PRIMARY KEY (user_id, weapon_name)
WeaponKeyConflict(u, w) == WeaponRows(u, w) # {}

\* user_id BIGINT REFERENCES users(user_id)
ForeignKeyMissing(u) == UserRows(u) = {}

\* INSERT INTO user_weapons (user_id, weapon_name) VALUES ($1, $2)
GwsInsert(t) ==
    /\ At(t, "get_weapon_stats", "insert")
    /\ IF WeaponKeyConflict(Top(t).user_id, Top(t).weapon_name)
       THEN Raise(t, "unique_violation")
       ELSE IF ForeignKeyMissing(Top(t).user_id)
       THEN Raise(t, "foreign_key_violation")
       ELSE /\ user_weapons' = InsertWeapon(user_weapons,
                                   NewWeaponRow(Top(t).user_id, Top(t).weapon_name))
            /\ Return(t, ZeroWeapon)
            /\ UNCHANGED users
    /\ UNCHANGED <<call, overlap, calc>>

(***************************************************************************)
(* get_top_weapons                                                         *)
(***************************************************************************)
GtwAcquire(t) ==
    /\ At(t, "get_top_weapons", "acquire")
    /\ PoolFree
    /\ stack' = [stack EXCEPT ![t] = SetPc(t, "fetch")]
    /\ UNCHANGED <<users, user_weapons, call, result, overlap, calc>>

\* an ascending order: ORDER BY uses, wins
RankedBeforeAscending(r1, r2) ==
    r1.uses < r2.uses \/ (r1.uses = r2.uses /\ r1.wins <= r2.wins)

\* ORDER BY uses DESC, wins DESC: row r1 may come before row r2
RankedBefore(r1, r2) ==
    r1.uses > r2.uses \/ (r1.uses = r2.uses /\ r1.wins >= r2.wins)

Min(a, b) == IF a < b THEN a ELSE b

\* the answers the query may give: the order of equal rows is not fixed
TopWeaponOrders(u, lim) ==
    LET R == {i \in DOMAIN user_weapons : user_weapons[i].user_id = u}
        n == Min(lim, Cardinality(R))
    IN  {s \in [1..n -> R] :
            /\ \A i, j \in 1..n : i # j => s[i] # s[j]
            /\ \A i \in 1..n : \A j \in 1..n :
                  i < j => RankedBefore(user_weapons[s[i]], user_weapons[s[j]])
            /\ \A i \in 1..n : \A k \in R \ {s[j] : j \in 1..n} :
                  RankedBefore(user_weapons[s[i]], user_weapons[k])}

WeaponDict(r) == [wins |-> r.wins, uses |-> r.uses,
                  weapon_name |-> r.weapon_name]

\* SELECT weapon_name, uses, wins FROM user_weapons WHERE user_id = $1
\* ORDER BY uses DESC, wins DESC LIMIT $2
GtwFetch(t) ==
    /\ At(t, "get_top_weapons", "fetch")
    /\ \E s \in TopWeaponOrders(Top(t).user_id, Top(t).limit) :
          Return(t, [i \in DOMAIN s |-> WeaponDict(user_weapons[s[i]])])
    /\ UNCHANGED <<users, user_weapons, call, overlap, calc>>

(***************************************************************************)
(* record_fight                                                            *)
(***************************************************************************)
RfAcquire(t) ==
    /\ At(t, "record_fight", "acquire")
    /\ PoolFree
    /\ stack' = [stack EXCEPT ![t] = SetPc(t, "begin")]
    /\ UNCHANGED <<users, user_weapons, call, result, overlap, calc>>

\* async with conn.transaction(): BEGIN, then get_user_stats(pool, attacker_id)
\* runs to its acquire
RfBegin(t) ==
    /\ At(t, "record_fight", "begin")
    /\ stack' = [stack EXCEPT ![t] =
                    SetPc(t, "ensure_attacker") \o <<GusFrame(Top(t).user_id)>>]
    /\ UNCHANGED <<users, user_weapons, call, result, overlap, calc>>

\* the transactions whose row locks the statement of task t waits for
LockHolders(t) ==
    IF At(t, "record_fight", "update_attacker")
    THEN {users[i].xid : i \in UserRows(Top(t).user_id)} \ {0, t}
    ELSE IF At(t, "record_fight", "update_weapon")
    THEN {user_weapons[i].xid : i \in WeaponRows(Top(t).user_id, Top(t).weapon_name)}
             \ {0, t}
    ELSE IF At(t, "record_fight", "update_defender")
    THEN {users[i].xid : i \in UserRows(Top(t).defender_id)} \ {0, t}
    ELSE {}

\* UPDATE users SET ... WHERE user_id = attacker_id
RfUpdateAttacker(t) ==
    /\ At(t, "record_fight", "update_attacker")
    /\ LockHolders(t) = {}
    /\ users' = UpdateAttackerRows(t, Top(t).user_id, Top(t).attacker_won)
    /\ stack' = [stack EXCEPT ![t] = SetPc(t, "update_weapon")]
    /\ UNCHANGED <<user_weapons, call, result, overlap, calc>>

\* UPDATE user_weapons SET ... WHERE user_id = attacker_id AND weapon_name = ...
RfUpdateWeapon(t) ==
    /\ At(t, "record_fight", "update_weapon")
    /\ LockHolders(t) = {}
    /\ user_weapons' = UpdateWeaponRows(t, Top(t).user_id, Top(t).weapon_name,
                                        Top(t).attacker_won)
    /\ stack' = [stack EXCEPT ![t] = SetPc(t, "update_defender")]
    /\ UNCHANGED <<users, call, result, overlap, calc>>

\* UPDATE users SET ... WHERE user_id = defender_id
RfUpdateDefender(t) ==
    /\ At(t, "record_fight", "update_defender")
    /\ LockHolders(t) = {}
    /\ users' = UpdateDefenderRows(t, Top(t).defender_id, Top(t).attacker_won)
    /\ stack' = [stack EXCEPT ![t] = SetPc(t, "commit")]
    /\ UNCHANGED <<user_weapons, call, result, overlap, calc>>

\* leaving the transaction block normally: COMMIT
RfCommit(t) ==
    /\ At(t, "record_fight", "commit")
    /\ users' = CommitUsers(users, t)
    /\ user_weapons' = CommitWeapons(user_weapons, t)
    /\ Return(t, <<>>)
    /\ UNCHANGED <<call, overlap, calc>>

\* the tasks that task t waits for, directly or through others
RECURSIVE WaitChain(_, _)
WaitChain(S, n) ==
    IF n = 0 THEN S
    ELSE WaitChain(S \cup UNION {LockHolders(q) : q \in S}, n - 1)

\* the storage finds a cycle of transactions waiting for each other's row
\* locks and ends one of them with an error
DeadlockDetected(t) ==
    /\ LockHolders(t) # {}
    /\ t \in WaitChain(LockHolders(t), Cardinality(DOMAIN stack))
    /\ Raise(t, "deadlock_detected")
    /\ UNCHANGED <<call, overlap, calc>>

\* the storage fails the statement (or the acquire) the task is waiting on
StorageFail(t) ==
    /\ stack[t] # <<>>
    /\ Raise(t, "storage_error")
    /\ UNCHANGED <<call, overlap, calc>>

(***************************************************************************)
(* The store under concurrent invocations.                                 *)
(***************************************************************************)
NoCalc == [attacker_stats |-> ZeroUser, defender_stats |-> ZeroUser,
           weapon_stats |-> ZeroWeapon, pc |-> "off", win_chance |-> Zero]

\* setup_db: the two tables exist and are empty; no task has started
StoreInit ==
    /\ users = <<>>
    /\ user_weapons = <<>>
    /\ stack = [t \in Tasks |-> <<>>]
    /\ call = [t \in Tasks |-> NoCall]
    /\ result = [t \in Tasks |-> NoResult]
    /\ overlap = FALSE

Init == StoreInit /\ calc = NoCalc

Next ==
    \/ \E t \in Tasks, u \in UserIds : CallGetUserStats(t, u)
    \/ \E t \in Tasks, u \in UserIds, w \in ALL_WEAPONS_SET : CallGetWeaponStats(t, u, w)
    \/ \E t \in Tasks, u \in UserIds, lim \in Limits : CallGetTopWeapons(t, u, lim)
    \/ \E t \in Tasks, a \in UserIds, d \in UserIds, w \in ALL_WEAPONS_SET,
          won \in BOOLEAN : CallRecordFight(t, a, d, w, won)
    \/ \E t \in Tasks : GusAcquire(t)
    \/ \E t \in Tasks : GusSelect(t)
    \/ \E t \in Tasks : GusInsert(t)
    \/ \E t \in Tasks : GwsAcquire(t)
    \/ \E t \in Tasks : GwsSelect(t)
    \/ \E t \in Tasks : GwsInsert(t)
    \/ \E t \in Tasks : GtwAcquire(t)
    \/ \E t \in Tasks : GtwFetch(t)
    \/ \E t \in Tasks : RfAcquire(t)
    \/ \E t \in Tasks : RfBegin(t)
    \/ \E t \in Tasks : RfUpdateAttacker(t)
    \/ \E t \in Tasks : RfUpdateWeapon(t)
    \/ \E t \in Tasks : RfUpdateDefender(t)
    \/ \E t \in Tasks : RfCommit(t)
    \/ \E t \in Tasks : DeadlockDetected(t)
    \/ \E t \in Tasks : StorageFail(t)

Spec == Init /\ [][Next]_vars

(***************************************************************************)
(* calculate_win_chance on bounded valid inputs.                           *)
(***************************************************************************)
FightCounts == {0, 1, 2, 3, 5, 10, ConfidenceFights, MaxFights}
UseCounts == {0, 1, 2, 5, ConfidenceUses, MaxUses}

\* user statistics with wins + losses = total_fights
UserStatsInputs ==
    {[total_fights |-> p[2], wins |-> p[1], losses |-> p[2] - p[1]] :
        p \in {q \in FightCounts \X FightCounts : q[1] <= q[2]}}

\* weapon statistics with wins <= uses
WeaponStatsInputs ==
    {[wins |-> p[1], uses |-> p[2]] :
        p \in {q \in UseCounts \X UseCounts : q[1] <= q[2]}}

CalcInit ==
    /\ StoreInit
    /\ calc \in {[attacker_stats |-> a, defender_stats |-> d,
                  weapon_stats |-> w, pc |-> "input", win_chance |-> Zero] :
                    a \in UserStatsInputs, d \in UserStatsInputs,
                    w \in WeaponStatsInputs}

\* win_chance = self.calculate_win_chance(attacker_stats, defender_stats, weapon_stats)
Calculate ==
    /\ calc.pc = "input"
    /\ calc' = [calc EXCEPT
                   !.pc = "done",
                   !.win_chance = calculate_win_chance(calc.attacker_stats,
                                      calc.defender_stats, calc.weapon_stats)]
    /\ UNCHANGED store_vars

CalcNext == Calculate

CalcSpec == CalcInit /\ [][CalcNext]_vars

(***************************************************************************)
(* Properties of the statistics store (checked under Spec).                *)
(***************************************************************************)
Done(t) == call[t] # NoCall /\ stack[t] = <<>>
Committed(t) == call[t].fn = "record_fight" /\ result[t].status = "ok"
Answered(t) == Done(t) /\ result[t].status # "storage_error"

\* C1: every stored UserRecord has total_fights = wins + losses
C1_TotalIsWinsPlusLosses ==
    \A i \in DOMAIN users : users[i].total_fights = users[i].wins + users[i].losses

\* two overlapping fights between different users were recorded; a user won one
\* and lost the other
C1_Witness ==
    /\ overlap
    /\ \A t \in {1, 2} : Committed(t) /\ call[t].user_id # call[t].defender_id
    /\ \E i \in DOMAIN users :
          users[i].wins = 1 /\ users[i].losses = 1 /\ users[i].total_fights = 2

\* C2: every stored WeaponRecord has wins <= uses
C2_WeaponWinsAtMostUses ==
    \A i \in DOMAIN user_weapons : user_weapons[i].wins <= user_weapons[i].uses

\* a weapon used in two recorded fights, one of them won
C2_Witness ==
    \E i \in DOMAIN user_weapons : user_weapons[i].uses = 2 /\ user_weapons[i].wins = 1

\* what the committed record_fight calls add up to
FightsWon(u) ==
    Cardinality({t \in Tasks : Committed(t) /\ call[t].user_id = u /\ call[t].attacker_won})
      + Cardinality({t \in Tasks :
            Committed(t) /\ call[t].defender_id = u /\ ~call[t].attacker_won})
FightsLost(u) ==
    Cardinality({t \in Tasks : Committed(t) /\ call[t].user_id = u /\ ~call[t].attacker_won})
      + Cardinality({t \in Tasks :
            Committed(t) /\ call[t].defender_id = u /\ call[t].attacker_won})
WeaponUsed(u, w) ==
    Cardinality({t \in Tasks :
        Committed(t) /\ call[t].user_id = u /\ call[t].weapon_name = w})
WeaponWon(u, w) ==
    Cardinality({t \in Tasks :
        Committed(t) /\ call[t].user_id = u /\ call[t].weapon_name = w
                     /\ call[t].attacker_won})

\* C3: record_fight is all-or-nothing: the stored counters are at every moment
\* the sum of the record_fight calls that committed, each with all three of its
\* row updates; a call that failed or has not ended contributes to no row
C3_AllOrNothing ==
    /\ \A i \in DOMAIN users :
          /\ users[i].wins = FightsWon(users[i].user_id)
          /\ users[i].losses = FightsLost(users[i].user_id)
          /\ users[i].total_fights
                = FightsWon(users[i].user_id) + FightsLost(users[i].user_id)
    /\ \A i \in DOMAIN user_weapons :
          /\ user_weapons[i].uses
                = WeaponUsed(user_weapons[i].user_id, user_weapons[i].weapon_name)
          /\ user_weapons[i].wins
                = WeaponWon(user_weapons[i].user_id, user_weapons[i].weapon_name)
    /\ \A t \in Tasks :
          Committed(t) =>
             /\ UserRows(call[t].user_id) # {}
             /\ UserRows(call[t].defender_id) # {}
             /\ WeaponRows(call[t].user_id, call[t].weapon_name) # {}

\* a record_fight failed after two of its three updates, which were rolled
\* back, while an overlapping record_fight of the same attacker committed
C3_Witness ==
    /\ overlap
    /\ \E t \in Tasks : \E q \in Tasks \ {t} :
          /\ call[t].fn = "record_fight"
          /\ call[t].user_id # call[t].defender_id
          /\ result[t].status \in {"storage_error", "deadlock_detected"}
          /\ result[t].undone = 2
          /\ Committed(q)
          /\ call[q].user_id = call[t].user_id
          /\ \A i \in UserRows(call[t].user_id) : users[i].total_fights = 1

\* C4: two overlapping record_fight calls for the same attacker, both won,
\* leave the attacker with wins and total_fights increased by exactly 2
\* (the tables are empty before, and the storage answers every statement)
C4_NoLostUpdate ==
    \A t1 \in Tasks : \A t2 \in Tasks \ {t1} :
        ( /\ overlap
          /\ \A q \in Tasks \ {t1, t2} : call[q] = NoCall
          /\ Answered(t1) /\ Answered(t2)
          /\ call[t1].fn = "record_fight" /\ call[t2].fn = "record_fight"
          /\ call[t1].user_id = call[t2].user_id
          /\ call[t1].attacker_won /\ call[t2].attacker_won
          /\ call[t1].defender_id # call[t1].user_id
          /\ call[t2].defender_id # call[t2].user_id )
        => /\ UserRows(call[t1].user_id) # {}
           /\ \A i \in UserRows(call[t1].user_id) :
                 users[i].wins = 2 /\ users[i].total_fights = 2

\* the stored counters of a user, zeros for a user without a row
StoredUser(table, u) ==
    IF \E i \in DOMAIN table : table[i].user_id = u
    THEN UserCounters(table[CHOOSE i \in DOMAIN table : table[i].user_id = u])
    ELSE ZeroUser

StoredWeapon(table, u, w) ==
    IF \E i \in DOMAIN table : table[i].user_id = u /\ table[i].weapon_name = w
    THEN WeaponCounters(table[CHOOSE i \in DOMAIN table :
                                 table[i].user_id = u /\ table[i].weapon_name = w])
    ELSE ZeroWeapon

\* the step in which the record_fight of task t completes
Completes(t) ==
    /\ At(t, "record_fight", "commit")
    /\ result'[t].status = "ok"

\* C5: a record_fight that completes, with attacker # defender, applies
\* transition A (attacker won) or transition B (attacker lost) to the stored
\* counters of the attacker, the attacker's weapon and the defender
C5_Transition ==
    [][\A t \in Tasks :
          (Completes(t) /\ Top(t).user_id # Top(t).defender_id) =>
             LET a == Top(t).user_id
                 d == Top(t).defender_id
                 w == Top(t).weapon_name
                 ua == StoredUser(users, a)
                 ud == StoredUser(users, d)
                 wa == StoredWeapon(user_weapons, a, w)
             IN  IF Top(t).attacker_won
                 THEN /\ StoredUser(users', a) =
                            [total_fights |-> ua.total_fights + 1,
                             wins |-> ua.wins + 1, losses |-> ua.losses]
                      /\ StoredWeapon(user_weapons', a, w) =
                            [wins |-> wa.wins + 1, uses |-> wa.uses + 1]
                      /\ StoredUser(users', d) =
                            [total_fights |-> ud.total_fights + 1,
                             wins |-> ud.wins, losses |-> ud.losses + 1]
                 ELSE /\ StoredUser(users', a) =
                            [total_fights |-> ua.total_fights + 1,
                             wins |-> ua.wins, losses |-> ua.losses + 1]
                      /\ StoredWeapon(user_weapons', a, w) =
                            [wins |-> wa.wins, uses |-> wa.uses + 1]
                      /\ StoredUser(users', d) =
                            [total_fights |-> ud.total_fights + 1,
                             wins |-> ud.wins + 1, losses |-> ud.losses]]_vars

\* two overlapping fights between different users completed, a won one and a
\* lost one
C5_Witness ==
    /\ overlap
    /\ \E t1 \in Tasks : \E t2 \in Tasks \ {t1} :
          /\ Committed(t1) /\ call[t1].attacker_won
          /\ call[t1].user_id # call[t1].defender_id
          /\ Committed(t2) /\ ~call[t2].attacker_won
          /\ call[t2].user_id # call[t2].defender_id

NoDuplicateRows ==
    /\ \A i, j \in DOMAIN users : i # j => users[i].user_id # users[j].user_id
    /\ \A i, j \in DOMAIN user_weapons :
          i # j => \/ user_weapons[i].user_id # user_weapons[j].user_id
                   \/ user_weapons[i].weapon_name # user_weapons[j].weapon_name

\* task t called get_user_stats(u) and the storage answered its statements
FirstTouch(t, u) ==
    /\ call[t].fn = "get_user_stats"
    /\ call[t].user_id = u
    /\ Answered(t)

\* C6: no two UserRecords share a user_id and no two WeaponRecords share a
\* (user_id, weapon_id); after two overlapping get_user_stats calls for a user
\* no record_fight names, exactly one record of the user is stored, with zero
\* counters
C6_NoDuplicates ==
    /\ NoDuplicateRows
    /\ \A u \in UserIds : \A t1 \in Tasks : \A t2 \in Tasks \ {t1} :
          ( /\ overlap
            /\ FirstTouch(t1, u) /\ FirstTouch(t2, u)
            /\ \A q \in Tasks : call[q].fn = "record_fight" =>
                  call[q].user_id # u /\ call[q].defender_id # u )
          => /\ Cardinality(UserRows(u)) = 1
             /\ \A i \in UserRows(u) : UserCounters(users[i]) = ZeroUser

\* both calls found no row and both sent the INSERT; one row is stored
C6_Witness ==
    \E u \in UserIds : \E t1 \in Tasks : \E t2 \in Tasks \ {t1} :
        /\ FirstTouch(t1, u) /\ FirstTouch(t2, u)
        /\ result[t1].status = "ok" /\ result[t1].value = ZeroUser
        /\ result[t2].status = "unique_violation"
        /\ Cardinality(UserRows(u)) = 1

\* C7: two overlapping first-touch calls of get_user_stats for one user id, or
\* of get_weapon_stats for one (user, weapon) pair, both return a record:
\* neither raises, whenever the storage answers every statement
C7_FirstTouchNeverRaises ==
    \A t1 \in Tasks : \A t2 \in Tasks \ {t1} :
        ( /\ Answered(t1) /\ Answered(t2)
          /\ call[t1].fn \in {"get_user_stats", "get_weapon_stats"}
          /\ call[t1] = call[t2] )
        => result[t1].status = "ok" /\ result[t2].status = "ok"

(***************************************************************************)
(* Properties of calculate_win_chance (checked under CalcSpec).            *)
(***************************************************************************)
Calculated == calc.pc = "done"

\* C8: the win chance is in [0.10, 0.90] for every valid input
C8_ChanceInRange ==
    Calculated =>
        RLe(<<1, 10>>, calc.win_chance) /\ RLe(calc.win_chance, <<9, 10>>)

\* an attacker without fights and an unused weapon against a ranked defender
C8_Witness ==
    /\ Calculated
    /\ calc.attacker_stats.total_fights = 0
    /\ calc.defender_stats.total_fights > 0
    /\ calc.weapon_stats.uses = 0
    /\ RLt(<<1, 10>>, calc.win_chance)

\* the win rate the formula is specified with, as an unreduced fraction
RateOf(stats) ==
    IF stats.total_fights > 0 THEN <<stats.wins, stats.total_fights>> ELSE <<3, 10>>

SameRate(x, y) == x[1] * y[2] = y[1] * x[2]

\* C9: with an unused weapon, the result is exactly 0.50 when the two win
\* rates are equal (0.30 for a participant without fights) or when both
\* participants have no fights
C9_EvenChance ==
    ( /\ Calculated
      /\ calc.weapon_stats.uses = 0
      /\ \/ SameRate(RateOf(calc.attacker_stats), RateOf(calc.defender_stats))
         \/ /\ calc.attacker_stats.total_fights = 0
            /\ calc.defender_stats.total_fights = 0 )
    => calc.win_chance = <<1, 2>>

\* ranked participants with equal win rates, 1/2 and 5/10, get 0.50
C9_Witness ==
    /\ Calculated
    /\ calc.weapon_stats.uses = 0
    /\ calc.attacker_stats = [total_fights |-> 2, wins |-> 1, losses |-> 1]
    /\ calc.defender_stats = [total_fights |-> 10, wins |-> 5, losses |-> 5]
    /\ SameRate(RateOf(calc.attacker_stats), RateOf(calc.defender_stats))
    /\ calc.win_chance = <<1, 2>>

\* min(1.0, total_fights / 20.0), as a fraction
ConfidenceOf(stats) ==
    IF stats.total_fights >= 20 THEN <<1, 1>> ELSE <<stats.total_fights, 20>>

\* (attacker_wr - defender_wr) * 0.25 * avg_confidence clamped to [-0.20, 0.20]
ClampedUserModifier(a, d) ==
    LET diff == RSub(RateOf(a), RateOf(d))
        conf == RMul(RAdd(ConfidenceOf(a), ConfidenceOf(d)), <<1, 2>>)
        m == RMul(RMul(diff, <<1, 4>>), conf)
    IN  IF RLt(<<1, 5>>, m) THEN <<1, 5>>
        ELSE IF RLt(m, <<-1, 5>>) THEN <<-1, 5>> ELSE m

\* C10: with an unused weapon the result is 0.50 plus the clamped user
\* modifier and lies in [0.30, 0.70]; 20 wins of 20 against 0 wins of 20
\* gives 0.70
C10_UnusedWeapon ==
    (Calculated /\ calc.weapon_stats.uses = 0) =>
        /\ calc.win_chance
              = RAdd(<<1, 2>>, ClampedUserModifier(calc.attacker_stats,
                                                   calc.defender_stats))
        /\ RLe(<<3, 10>>, calc.win_chance) /\ RLe(calc.win_chance, <<7, 10>>)
        /\ ( /\ calc.attacker_stats = [total_fights |-> 20, wins |-> 20,
                                       losses |-> 0]
             /\ calc.defender_stats = [total_fights |-> 20, wins |-> 0,
                                       losses |-> 20] )
           => calc.win_chance = <<7, 10>>

\* the example: the unclamped modifier 0.25 is cut to 0.20
C10_Witness ==
    /\ Calculated
    /\ calc.weapon_stats.uses = 0
    /\ calc.attacker_stats = [total_fights |-> 20, wins |-> 20, losses |-> 0]
    /\ calc.defender_stats = [total_fights |-> 20, wins |-> 0, losses |-> 20]
    /\ raw_user_modifier(calc.attacker_stats, calc.defender_stats) = <<1, 4>>
    /\ calc.win_chance = <<7, 10>>

(***************************************************************************)
(* Further properties of the statistics store (checked under Spec).        *)
(***************************************************************************)
\* C12: get_weapon_stats returns the stored record or creates a zero one, after
\* making sure the owning user has a row: every stored WeaponRecord's user has
\* a stored UserRecord, and no INSERT into user_weapons is refused for a
\* missing user
C12_WeaponOwnerExists ==
    /\ \A i \in DOMAIN user_weapons : UserRows(user_weapons[i].user_id) # {}
    /\ \A t \in Tasks : result[t].status # "foreign_key_violation"
    /\ \A t \in Tasks :
          (Done(t) /\ call[t].fn = "get_weapon_stats" /\ result[t].status = "ok") =>
             /\ UserRows(call[t].user_id) # {}
             /\ WeaponRows(call[t].user_id, call[t].weapon_name) # {}
             /\ \A i \in WeaponRows(call[t].user_id, call[t].weapon_name) :
                   /\ result[t].value.uses <= user_weapons[i].uses
                   /\ result[t].value.wins <= user_weapons[i].wins

\* a get_weapon_stats for a user nobody else names created both rows
C12_Witness ==
    \E t \in Tasks :
        /\ Done(t) /\ call[t].fn = "get_weapon_stats" /\ result[t].status = "ok"
        /\ result[t].value = ZeroWeapon
        /\ \A q \in Tasks \ {t} :
              call[q].user_id # call[t].user_id /\ call[q].defender_id # call[t].user_id
        /\ UserRows(call[t].user_id) # {}
        /\ WeaponRows(call[t].user_id, call[t].weapon_name) # {}

\* task t waits for a row lock in a cycle of waiting transactions
InWaitCycle(t) ==
    /\ LockHolders(t) # {}
    /\ t \in WaitChain(LockHolders(t), Cardinality(DOMAIN stack))

\* C17: two overlapping record_fight calls on the same two users in opposite
\* roles both commit, each user's total_fights rising by 2, and the order of
\* the row locks never makes transactions wait for each other in a cycle
\* (the rows exist or are created without a conflict, and the storage answers)
C17_OppositeFightsCommit ==
    /\ \A t \in Tasks : ~InWaitCycle(t)
    /\ \A t1 \in Tasks : \A t2 \in Tasks \ {t1} :
          ( /\ overlap
            /\ \A q \in Tasks \ {t1, t2} : call[q] = NoCall
            /\ Done(t1) /\ Done(t2)
            /\ call[t1].fn = "record_fight" /\ call[t2].fn = "record_fight"
            /\ call[t1].user_id # call[t1].defender_id
            /\ call[t1].user_id = call[t2].defender_id
            /\ call[t1].defender_id = call[t2].user_id
            /\ result[t1].status \notin {"storage_error", "unique_violation"}
            /\ result[t2].status \notin {"storage_error", "unique_violation"} )
          => /\ result[t1].status = "ok" /\ result[t2].status = "ok"
             /\ \A i \in UserRows(call[t1].user_id) : users[i].total_fights = 2
             /\ \A i \in UserRows(call[t2].user_id) : users[i].total_fights = 2

\* C18: record_fight changes only the attacker's and the defender's UserRecord
\* and the attacker's record of the weapon used; no other step of any
\* operation changes a stored counter
C18_Frame ==
    [][/\ \A u \in UserIds :
             StoredUser(users', u) # StoredUser(users, u) =>
                \E t \in Tasks :
                    Completes(t) /\ u \in {Top(t).user_id, Top(t).defender_id}
       /\ \A u \in UserIds : \A w \in ALL_WEAPONS_SET :
             StoredWeapon(user_weapons', u, w) # StoredWeapon(user_weapons, u, w) =>
                \E t \in Tasks :
                    Completes(t) /\ u = Top(t).user_id /\ w = Top(t).weapon_name]_vars

\* a fight was recorded while the attacker's other weapon and a weapon of the
\* defender have records, which still hold zeros
C18_Witness ==
    \E t \in Tasks :
        /\ Committed(t)
        /\ call[t].user_id # call[t].defender_id
        /\ \E i \in DOMAIN user_weapons :
              /\ user_weapons[i].user_id \in {call[t].user_id, call[t].defender_id}
              /\ user_weapons[i].user_id = call[t].user_id
                    => user_weapons[i].weapon_name # call[t].weapon_name
              /\ WeaponCounters(user_weapons[i]) = ZeroWeapon
        /\ \A i \in WeaponRows(call[t].user_id, call[t].weapon_name) :
              user_weapons[i].uses = 1

RECURSIVE SumOver(_, _)
SumOver(table, field) ==
    IF table = <<>> THEN 0
    ELSE Head(table)[field] + SumOver(Tail(table), field)

CommittedFights == Cardinality({t \in Tasks : Committed(t)})

\* C20: every recorded fight has one winner and one loser: the wins of all
\* users and the losses of all users both add up to the number of committed
\* record_fight calls, and their total_fights to twice that number
C20_OneWinnerOneLoser ==
    /\ SumOver(users, "wins") = CommittedFights
    /\ SumOver(users, "losses") = CommittedFights
    /\ SumOver(users, "total_fights") = 2 * CommittedFights

\* two overlapping fights were both recorded
C20_Witness ==
    /\ overlap
    /\ CommittedFights = 2
    /\ SumOver(users, "wins") = 2

(***************************************************************************)
(* get_top_weapons on tables with a history.  The tables are the ones a    *)
(* series of recorded fights between users 1 and 2 leaves: for each of the *)
(* two and each weapon either no record, or a record with the fights the   *)
(* user made with the weapon against the other and those of them won.      *)
(***************************************************************************)
TopUsers == {u \in UserIds : u <= 2}
Opponent(u) == IF u = 1 THEN 2 ELSE 1

WeaponHistories ==
    {[wins |-> 0, uses |-> 0, stored |-> FALSE]}
      \cup {[wins |-> k, uses |-> n, stored |-> TRUE] :
               n \in 0..MaxTopUses, k \in 0..MaxTopUses}

Histories ==
    {h \in [TopUsers \X ALL_WEAPONS_SET -> WeaponHistories] :
        \A p \in TopUsers \X ALL_WEAPONS_SET : h[p].wins <= h[p].uses}

RECURSIVE WonWith(_, _, _)
WonWith(h, u, n) ==
    IF n = 0 THEN 0 ELSE h[<<u, ALL_WEAPONS_LIST[n]>>].wins + WonWith(h, u, n - 1)

RECURSIVE UsedWith(_, _, _)
UsedWith(h, u, n) ==
    IF n = 0 THEN 0 ELSE h[<<u, ALL_WEAPONS_LIST[n]>>].uses + UsedWith(h, u, n - 1)

\* the users row after the fights of history h
HistoryUserRow(h, u) ==
    LET n == Len(ALL_WEAPONS_LIST)
        won == WonWith(h, u, n) + (UsedWith(h, Opponent(u), n) - WonWith(h, Opponent(u), n))
        lost == (UsedWith(h, u, n) - WonWith(h, u, n)) + WonWith(h, Opponent(u), n)
        c == [total_fights |-> won + lost, wins |-> won, losses |-> lost]
    IN  [total_fights |-> c.total_fights, wins |-> c.wins,
         losses |-> c.losses, user_id |-> u, xid |-> 0, next |-> c]

\* the user_weapons rows of the first k keys, in key order
RECURSIVE HistoryWeaponRows(_, _)
HistoryWeaponRows(h, k) ==
    IF k = 0 THEN <<>>
    ELSE LET n == Len(ALL_WEAPONS_LIST)
             u == ((k - 1) \div n) + 1
             w == ALL_WEAPONS_LIST[((k - 1) % n) + 1]
             e == h[<<u, w>>]
             c == [wins |-> e.wins, uses |-> e.uses]
         IN  HistoryWeaponRows(h, k - 1) \o
             (IF e.stored
              THEN <<[wins |-> e.wins, uses |-> e.uses, user_id |-> u,
                      xid |-> 0, next |-> c, weapon_name |-> w]>>
              ELSE <<>>)

TopInit ==
    /\ \E h \in Histories :
          /\ users = [u \in TopUsers |-> HistoryUserRow(h, u)]
          /\ user_weapons =
                HistoryWeaponRows(h, Cardinality(TopUsers) * Len(ALL_WEAPONS_LIST))
    /\ stack = [t \in Tasks |-> <<>>]
    /\ call = [t \in Tasks |-> NoCall]
    /\ result = [t \in Tasks |-> NoResult]
    /\ overlap = FALSE
    /\ calc = NoCalc

\* one task asks for the top weapons of a user
TopNext ==
    \/ \E u \in UserIds, lim \in Limits : CallGetTopWeapons(1, u, lim)
    \/ GtwAcquire(1)
    \/ GtwFetch(1)
    \/ StorageFail(1)

TopSpec == TopInit /\ [][TopNext]_vars

(***************************************************************************)
(* Properties of get_top_weapons (checked under TopSpec).                  *)
(***************************************************************************)
RowsOfUser(u) == {i \in DOMAIN user_weapons : user_weapons[i].user_id = u}

TopAnswer(t) == Done(t) /\ call[t].fn = "get_top_weapons" /\ result[t].status = "ok"

\* C11: get_top_weapons(user, limit) returns at most limit records, all of that
\* user, ordered by uses descending and then wins descending, and they are the
\* highest-ranked records of the user; it returns the empty sequence for a
\* user without weapon records
C11_TopWeapons ==
    \A t \in Tasks :
        TopAnswer(t) =>
           LET s == result[t].value
               R == RowsOfUser(call[t].user_id)
               names == {s[k].weapon_name : k \in DOMAIN s}
           IN  /\ Len(s) <= call[t].limit
               /\ Len(s) = Cardinality(names)
               /\ \/ Len(s) = call[t].limit
                  \/ Len(s) = Cardinality(R)
               /\ \A k \in DOMAIN s : \E i \in R :
                     /\ user_weapons[i].weapon_name = s[k].weapon_name
                     /\ user_weapons[i].uses = s[k].uses
                     /\ user_weapons[i].wins = s[k].wins
               /\ \A j, k \in DOMAIN s :
                     j < k => \/ s[j].uses > s[k].uses
                              \/ s[j].uses = s[k].uses /\ s[j].wins >= s[k].wins
               /\ \A i \in R : user_weapons[i].weapon_name \notin names =>
                     \A k \in DOMAIN s :
                        \/ s[k].uses > user_weapons[i].uses
                        \/ /\ s[k].uses = user_weapons[i].uses
                           /\ s[k].wins >= user_weapons[i].wins
               /\ R = {} => s = <<>>

\* limit 1 for a user with two records of equal uses: the one with more wins
C11_Witness ==
    \E t \in Tasks :
        /\ TopAnswer(t)
        /\ call[t].limit = 1
        /\ Cardinality(RowsOfUser(call[t].user_id)) = 2
        /\ \A i \in RowsOfUser(call[t].user_id) : user_weapons[i].uses = 2
        /\ Len(result[t].value) = 1
        /\ result[t].value[1].wins = 2
        /\ \E i \in RowsOfUser(call[t].user_id) : user_weapons[i].wins = 1

(***************************************************************************)
(* The connection pool under load: NumPoolTasks commands record the same   *)
(* fight at the same time, and the storage answers every statement.  The   *)
(* two users and the attacker's weapon have been looked up before, so      *)
(* their rows exist and no invocation inserts one.                         *)
(***************************************************************************)
PoolTasks == 1..NumPoolTasks

PoolInit ==
    /\ users = InsertUser(InsertUser(<<>>, NewUserRow(1)), NewUserRow(2))
    /\ user_weapons = InsertWeapon(<<>>, NewWeaponRow(1, ALL_WEAPONS_LIST[1]))
    /\ stack = [t \in PoolTasks |-> <<>>]
    /\ call = [t \in PoolTasks |-> NoCall]
    /\ result = [t \in PoolTasks |-> NoResult]
    /\ overlap = FALSE
    /\ calc = NoCalc

PoolNext ==
    \/ \E t \in PoolTasks : CallRecordFight(t, 1, 2, ALL_WEAPONS_LIST[1], TRUE)
    \/ \E t \in PoolTasks : GusAcquire(t)
    \/ \E t \in PoolTasks : GusSelect(t)
    \/ \E t \in PoolTasks : GwsAcquire(t)
    \/ \E t \in PoolTasks : GwsSelect(t)
    \/ \E t \in PoolTasks : RfAcquire(t)
    \/ \E t \in PoolTasks : RfBegin(t)
    \/ \E t \in PoolTasks : RfUpdateAttacker(t)
    \/ \E t \in PoolTasks : RfUpdateWeapon(t)
    \/ \E t \in PoolTasks : RfUpdateDefender(t)
    \/ \E t \in PoolTasks : RfCommit(t)

PoolSpec == PoolInit /\ [][PoolNext]_vars

\* an invocation that has started and neither completed nor failed
InFlight(t) == stack[t] # <<>>

\* waiting in pool.acquire() while every connection is in use
WaitsForConnection(t) == InFlight(t) /\ Top(t).pc = "acquire" /\ ~PoolFree

\* C16: no set of invocations waits forever for a pool connection: there is
\* never a state in which every invocation in flight waits in pool.acquire()
\* for a connection that only another waiting invocation could give back
C16_NoPoolStarvation ==
    ~ /\ \E t \in DOMAIN stack : InFlight(t)
      /\ \A t \in DOMAIN stack : InFlight(t) => WaitsForConnection(t)

(***************************************************************************)
(* The /attack command.                                                    *)
(***************************************************************************)
\* values of random.random(): one below every win chance, one above every
\* win chance, and the middle
Rolls == {Rat(0, 1), Rat(1, 2), Rat(19, 20)}

\* weapon names as typed
TypedNames ==
    { <<>>,
      <<"a", "k", "m">>,
      <<"A", "K", "M">>,
      <<" ", "A", "k", "m", " ">>,
      <<"a", "k">>,
      <<"M", "4">>,
      <<"m", "4", "a", "1">>,
      <<"r", "p", "g">>,
      <<"a", " ", "k">>,
      <<" ">> }

\* the weapon option: left out, or given with a typed name
WeaponOptions ==
    {[given |-> FALSE, text |-> <<>>]}
       \cup {[given |-> TRUE, text |-> n] : n \in TypedNames}

\* one /attack command, with any target and any weapon option
CommandNext ==
    \/ \E a \in UserIds, d \in UserIds, bot \in BOOLEAN, o \in WeaponOptions,
          roll \in Rolls :
          CallAttack(1, a, d, bot, o.given, o.text, roll)
    \/ GusAcquire(1)
    \/ GusSelect(1)
    \/ GusInsert(1)
    \/ GwsAcquire(1)
    \/ GwsSelect(1)
    \/ GwsInsert(1)
    \/ RfAcquire(1)
    \/ RfBegin(1)
    \/ RfUpdateAttacker(1)
    \/ RfUpdateWeapon(1)
    \/ RfUpdateDefender(1)
    \/ RfCommit(1)
    \/ StorageFail(1)

CommandSpec == Init /\ [][CommandNext]_vars

\* concurrent /attack commands between users, each with a random weapon
AttackNext ==
    \/ \E t \in Tasks, a \in UserIds, d \in UserIds, roll \in Rolls :
          CallAttack(t, a, d, FALSE, FALSE, <<>>, roll)
    \/ \E t \in Tasks : GusAcquire(t)
    \/ \E t \in Tasks : GusSelect(t)
    \/ \E t \in Tasks : GusInsert(t)
    \/ \E t \in Tasks : GwsAcquire(t)
    \/ \E t \in Tasks : GwsSelect(t)
    \/ \E t \in Tasks : GwsInsert(t)
    \/ \E t \in Tasks : RfAcquire(t)
    \/ \E t \in Tasks : RfBegin(t)
    \/ \E t \in Tasks : RfUpdateAttacker(t)
    \/ \E t \in Tasks : RfUpdateWeapon(t)
    \/ \E t \in Tasks : RfUpdateDefender(t)
    \/ \E t \in Tasks : RfCommit(t)
    \/ \E t \in Tasks : DeadlockDetected(t)
    \/ \E t \in Tasks : StorageFail(t)

AttackSpec == Init /\ [][AttackNext]_vars

(***************************************************************************)
(* Properties of the /attack command.                                      *)
(***************************************************************************)
\* the frame of the /attack handler of a task that is inside the command
InAttack(t) == stack[t] # <<>> /\ stack[t][1].fn = "attack"
AttackOf(t) == stack[t][1]

\* C13: read, outcome and write of a fight form one logical transaction: when
\* the record_fight of an /attack is about to commit, the counters it
\* increments are the ones the command read, and the win chance the command
\* reports is the one those counters give
C13_ReadsAreCurrent ==
    \A t \in Tasks :
        (InAttack(t) /\ At(t, "record_fight", "commit")) =>
            LET a == AttackOf(t)
            IN  /\ \A i \in UserRows(a.user_id) :
                      UserCounters(users[i]) = a.attacker_stats
                /\ \A i \in UserRows(a.defender_id) :
                      UserCounters(users[i]) = a.defender_stats
                /\ \A i \in WeaponRows(a.user_id, a.weapon_name) :
                      WeaponCounters(user_weapons[i]) = a.weapon_stats
                /\ \A i \in UserRows(a.user_id) : \A j \in UserRows(a.defender_id) :
                   \A k \in WeaponRows(a.user_id, a.weapon_name) :
                      a.win_chance =
                         calculate_win_chance(UserCounters(users[i]),
                                              UserCounters(users[j]),
                                              WeaponCounters(user_weapons[k]))

\* the store is untouched: no row, and the task is in no store function
Untouched(t) == stack[t] = <<>> /\ users = <<>> /\ user_weapons = <<>>

\* C14: an /attack on oneself or on a bot ends at once, before any store
\* operation and with no row created or changed, and no store function runs
\* for an /attack with attacker_id = defender_id
C14_NoSelfAttack ==
    \A t \in Tasks :
        call[t].fn = "attack" =>
            /\ call[t].user_id = call[t].defender_id =>
                  Untouched(t) /\ result[t].status = "rejected_self"
            /\ (call[t].bot /\ call[t].user_id # call[t].defender_id) =>
                  Untouched(t) /\ result[t].status = "rejected_bot"
            /\ \A k \in DOMAIN stack[t] :
                  /\ AttackOf(t).user_id # AttackOf(t).defender_id
                  /\ stack[t][k].fn = "record_fight" =>
                        stack[t][k].user_id # stack[t][k].defender_id

\* a command on oneself, with a weapon of the catalog, was refused
C14_Witness ==
    /\ call[1].fn = "attack"
    /\ call[1].user_id = call[1].defender_id
    /\ ~call[1].bot
    /\ call[1].given /\ call[1].text = <<"a", "k", "m">>
    /\ result[1].status = "rejected_self"

\* the weapon each typed name stands for; "" for a name that is not one
ExpectedWeapon(text) ==
    CASE text = <<"a", "k", "m">> -> "akm"
      [] text = <<"A", "K", "M">> -> "akm"
      [] text = <<" ", "A", "k", "m", " ">> -> "akm"
      [] text = <<"a", "k">> -> "akm"
      [] text = <<"M", "4">> -> "m4a1"
      [] text = <<"m", "4", "a", "1">> -> "m4a1"
      [] OTHER -> ""

Accepted(c) == c.fn = "attack" /\ c.user_id # c.defender_id /\ ~c.bot

\* C15: every weapon name /attack passes to get_weapon_stats and record_fight,
\* and so every weapon row it creates, is in the catalog: the typed name
\* without case and surrounding blanks, the weapon an alias stands for, or a
\* random one; a name that is not recognized ends the command before any
\* store operation
C15_WeaponInCatalog ==
    /\ \A i \in DOMAIN user_weapons : user_weapons[i].weapon_name \in ALL_WEAPONS_SET
    /\ \A t \in Tasks :
        call[t].fn = "attack" =>
            /\ \A k \in DOMAIN stack[t] :
                  stack[t][k].fn \in {"attack", "get_weapon_stats", "record_fight"} =>
                     /\ stack[t][k].weapon_name \in ALL_WEAPONS_SET
                     /\ stack[t][k].weapon_name = AttackOf(t).weapon_name
            /\ (InAttack(t) /\ call[t].given /\ call[t].text # <<>>) =>
                  AttackOf(t).weapon_name = ExpectedWeapon(call[t].text)
            /\ (Accepted(call[t]) /\ call[t].given /\ call[t].text # <<>>
                  /\ ExpectedWeapon(call[t].text) = "") =>
                  Untouched(t) /\ result[t].status = "rejected_weapon"

\* the command " Akm " was reported and left a weapon row named akm
C15_Witness ==
    /\ call[1].fn = "attack"
    /\ call[1].given /\ call[1].text = <<" ", "A", "k", "m", " ">>
    /\ result[1].status = "reported"
    /\ \E i \in DOMAIN user_weapons : user_weapons[i].weapon_name = "akm"

\* no fight is recorded: every row has its column defaults and no row lock
NoCounterChanged ==
    /\ \A i \in DOMAIN users :
          users[i].xid = 0 /\ UserCounters(users[i]) = ZeroUser
    /\ \A i \in DOMAIN user_weapons :
          user_weapons[i].xid = 0 /\ WeaponCounters(user_weapons[i]) = ZeroWeapon

RecordFightFrames(t) == {k \in DOMAIN stack[t] : stack[t][k].fn = "record_fight"}

\* C19: a fight is single-shot: an /attack calls record_fight at most once,
\* and only after its three reads succeeded; a failed read ends the command
\* with no counter changed, and a failed record_fight ends it without another
\* call and with no counter changed
C19_SingleShot ==
    \A t \in Tasks :
        call[t].fn = "attack" =>
            /\ Cardinality(RecordFightFrames(t)) <= 1
            /\ InAttack(t) =>
                  /\ AttackOf(t).recorded <= 1
                  /\ AttackOf(t).recorded = Cardinality(RecordFightFrames(t))
                  /\ AttackOf(t).recorded = 1 <=> AttackOf(t).pc = "record"
                  /\ AttackOf(t).pc = "record" =>
                        /\ UserRows(AttackOf(t).user_id) # {}
                        /\ UserRows(AttackOf(t).defender_id) # {}
                        /\ WeaponRows(AttackOf(t).user_id, AttackOf(t).weapon_name) # {}
            /\ result[t].status \in {"fetch_failed", "save_failed"} =>
                  stack[t] = <<>> /\ NoCounterChanged

\* record_fight failed after its first UPDATE and the command ended
C19_Witness ==
    /\ call[1].fn = "attack"
    /\ result[1].status = "save_failed"
    /\ result[1].undone > 0
    /\ stack[1] = <<>>
    /\ NoCounterChanged

(***************************************************************************)
(* The final clamp of calculate_win_chance (checked under CalcSpec).       *)
(***************************************************************************)
\* C22: the final clamp never changes the value: the sum of the base chance
\* and the two clamped modifiers lies in [0.15, 0.85], so the win chance is
\* that sum and is neither 0.10 nor 0.90
C22_FinalClampIdle ==
    Calculated =>
        LET sum == unclamped_chance(calc.attacker_stats, calc.defender_stats,
                                    calc.weapon_stats)
        IN  /\ calc.win_chance = sum
            /\ RLe(Rat(3, 20), sum) /\ RLe(sum, Rat(17, 20))
            /\ calc.win_chance # MinChance
            /\ calc.win_chance # MaxChance

\* a ranked attacker with a weapon that always won against a defender that
\* always lost: both modifiers raise the chance, to 0.725
C22_Witness ==
    /\ Calculated
    /\ calc.attacker_stats = [total_fights |-> 20, wins |-> 10, losses |-> 10]
    /\ calc.defender_stats = [total_fights |-> 20, wins |-> 0, losses |-> 20]
    /\ calc.weapon_stats = [wins |-> 10, uses |-> 10]
    /\ calc.win_chance = Rat(29, 40)

(***************************************************************************)
(* Fights that fail.  Concurrent tasks record a fight, either by calling   *)
(* record_fight or through the /attack command.                            *)
(***************************************************************************)
FightNext ==
    \/ \E t \in Tasks, a \in UserIds, d \in UserIds, w \in ALL_WEAPONS_SET,
          won \in BOOLEAN : CallRecordFight(t, a, d, w, won)
    \/ \E t \in Tasks, a \in UserIds, d \in UserIds, roll \in Rolls :
          CallAttack(t, a, d, FALSE, FALSE, <<>>, roll)
    \/ \E t \in Tasks : GusAcquire(t)
    \/ \E t \in Tasks : GusSelect(t)
    \/ \E t \in Tasks : GusInsert(t)
    \/ \E t \in Tasks : GwsAcquire(t)
    \/ \E t \in Tasks : GwsSelect(t)
    \/ \E t \in Tasks : GwsInsert(t)
    \/ \E t \in Tasks : RfAcquire(t)
    \/ \E t \in Tasks : RfBegin(t)
    \/ \E t \in Tasks : RfUpdateAttacker(t)
    \/ \E t \in Tasks : RfUpdateWeapon(t)
    \/ \E t \in Tasks : RfUpdateDefender(t)
    \/ \E t \in Tasks : RfCommit(t)
    \/ \E t \in Tasks : DeadlockDetected(t)
    \/ \E t \in Tasks : StorageFail(t)

FightSpec == Init /\ [][FightNext]_vars

(***************************************************************************)
(* Properties of failing fights (checked under FightSpec).                 *)
(***************************************************************************)
\* the step in which the record_fight of task t, past its ensure-exists
\* calls, fails: directly called or called by /attack
FightFails(t) ==
    /\ stack[t] # <<>>
    /\ Top(t).fn = "record_fight"
    /\ Top(t).pc \in {"update_attacker", "update_weapon", "update_defender", "commit"}
    /\ stack'[t] = <<>>
    /\ result'[t].status \notin {"ok", "reported"}

\* no fight has been recorded so far
NoFightRecorded ==
    \A q \in Tasks : ~Committed(q) /\ result[q].status # "reported"

\* every stored row has all-zero counters
ZeroCounters ==
    /\ \A i \in DOMAIN users : UserCounters(users[i]) = ZeroUser
    /\ \A i \in DOMAIN user_weapons : WeaponCounters(user_weapons[i]) = ZeroWeapon

\* C21: row creation is not part of record_fight's transaction: when a
\* record_fight fails after its ensure-exists calls, also one called by
\* /attack after its reads, the rows of the attacker, of the defender and of
\* the attacker's weapon stay stored, none of its increments is applied, and
\* the rows have all-zero counters if no fight was recorded before
C21_RowsOutliveFailure ==
    [][\A t \in Tasks :
          FightFails(t) =>
             /\ \E i \in DOMAIN users' : users'[i].user_id = Top(t).user_id
             /\ \E i \in DOMAIN users' : users'[i].user_id = Top(t).defender_id
             /\ \E i \in DOMAIN user_weapons' :
                   /\ user_weapons'[i].user_id = Top(t).user_id
                   /\ user_weapons'[i].weapon_name = Top(t).weapon_name
             /\ \A i \in DOMAIN users' : users'[i].xid # t
             /\ \A i \in DOMAIN user_weapons' : user_weapons'[i].xid # t
             /\ \A u \in UserIds : StoredUser(users', u) = StoredUser(users, u)
             /\ \A u \in UserIds : \A w \in ALL_WEAPONS_SET :
                   StoredWeapon(user_weapons', u, w) = StoredWeapon(user_weapons, u, w)
             /\ NoFightRecorded => ZeroCounters']_vars

\* the only call was a record_fight between two users that failed at its
\* COMMIT: the three rows it created are stored with zero counters
C21_Witness ==
    /\ call[1].fn = "record_fight"
    /\ call[1].user_id # call[1].defender_id
    /\ call[2] = NoCall
    /\ result[1].status = "storage_error"
    /\ result[1].undone = 3
    /\ Len(users) = 2
    /\ Len(user_weapons) = 1
    /\ user_weapons[1].weapon_name = call[1].weapon_name
    /\ ZeroCounters

====
